---- MODULE Spec2Model ----
(***************************************************************************)
(* Content-stream instruction grouping and unparsing of                    *)
(* src/qpdf/parsers.cpp: OperandGrouper (handleObject / handleEOF),        *)
(* unparse_content_stream, and the 2-tuple protocol (__getitem__,          *)
(* __len__) of ContentStreamInstruction and ContentStreamInlineImage.      *)
(*                                                                         *)
(* Byte strings and operator names are sequences of one-character strings, *)
(* so that op[0], splitting on ' ' and concatenation are computed.         *)
(***************************************************************************)
EXTENDS Integers, Sequences, FiniteSets, TLC

VARIABLES
    whitelist,             \* OperandGrouper::whitelist, std::set<std::string>
    tokens,                \* OperandGrouper::tokens, pending operand buffer
    inline_metadata,       \* OperandGrouper::inline_metadata
    parsing_inline_image,  \* OperandGrouper::parsing_inline_image
    instructions,          \* OperandGrouper::instructions (py::list)
    warning,               \* OperandGrouper::warning (std::string, "" = unset)
    count,                 \* OperandGrouper::count
    fed,                   \* history: the objects handed to handleObject so far
    pc,                    \* "parsing" | "eof" | "fault" (position of the parser loop)
    contentstream,         \* unparse_content_stream: the items its iterable has yielded
    ss,                    \* unparse_content_stream: std::ostringstream ss
    delim,                 \* unparse_content_stream: const char *delim
    n,                     \* unparse_content_stream: uint n
    result,                \* outcome of unparse_content_stream: running / bytes / error
    subject,               \* the instruction object __getitem__/__len__ is called on
    got                    \* the last __getitem__/__len__ call and what it returned

vars == <<whitelist, tokens, inline_metadata, parsing_inline_image, instructions,
          warning, count, fed, pc, contentstream, ss, delim, n, result,
          subject, got>>

grouperVars == <<whitelist, tokens, inline_metadata, parsing_inline_image,
                 instructions, warning, count, fed, pc>>
unparseVars == <<contentstream, ss, delim, n, result>>
indexVars == <<subject, got>>

----------------------------------------------------------------------------
(* Bounds of the model *)

MaxTokens == 4
MaxInlineTokens == 7
MaxItems == 3
MaxOperands == 2
MaxIndex == 3

----------------------------------------------------------------------------
(* Characters, byte strings, operator names *)

SP == " "
NL == "\n"

Str_BI == <<"B", "I">>
Str_ID == <<"I", "D">>
Str_EI == <<"E", "I">>
Str_Tj == <<"T", "j">>
Str_q == <<"q">>
Str_Q == <<"Q">>
Str_qq == <<"q", "q">>
\* The byte 0, written "@"
NUL == "@"
Str_INLINE_IMAGE == <<"I", "N", "L", "I", "N", "E", " ", "I", "M", "A", "G", "E">>

----------------------------------------------------------------------------
(* QPDFObjectHandle values *)

newOperator(name) == [t |-> "operator", v |-> name]
newInteger(i) == [t |-> "integer", i |-> i]
newName(name) == [t |-> "name", v |-> name]
newString(s) == [t |-> "string", v |-> s]

isOperator(obj) == obj.t = "operator"
getOperatorValue(obj) == obj.v

\* Decimal digits of a natural number
Digit(d) == <<"0", "1", "2", "3", "4", "5", "6", "7", "8", "9">>[d + 1]

RECURSIVE NatToBytes(_)
NatToBytes(i) == IF i < 10 THEN <<Digit(i)>>
                 ELSE NatToBytes(i \div 10) \o <<Digit(i % 10)>>

\* QPDFObjectHandle::unparseBinary
unparseBinary(obj) ==
    CASE obj.t = "operator" -> obj.v
      [] obj.t = "integer" -> IF obj.i < 0 THEN <<"-">> \o NatToBytes(0 - obj.i)
                              ELSE NatToBytes(obj.i)
      [] obj.t = "name" -> <<"/">> \o obj.v
      [] obj.t = "string" -> <<"(">> \o obj.v \o <<")">>
      [] OTHER -> <<"?">>

----------------------------------------------------------------------------
(* Instruction records *)

ContentStreamInstruction(operands, operator_) ==
    [kind |-> "csi", operands |-> operands, operator_ |-> operator_]

ContentStreamInlineImage(image_metadata, image_data) ==
    [kind |-> "csii", image_metadata |-> image_metadata, image_data |-> image_data]

----------------------------------------------------------------------------
(* OperandGrouper *)

\* Index of the first ' ' in s, 0 when there is none
RECURSIVE FirstSpaceFrom(_, _)
FirstSpaceFrom(s, i) ==
    IF i > Len(s) THEN 0
    ELSE IF s[i] = SP THEN i
    ELSE FirstSpaceFrom(s, i + 1)

\* The constructor's loop: while (std::getline(f, s, ' ')) whitelist.insert(s)
RECURSIVE SplitWhitelist(_)
SplitWhitelist(s) ==
    IF s = <<>> THEN {}
    ELSE LET i == FirstSpaceFrom(s, 1) IN
         IF i = 0 THEN {s}
         ELSE {SubSeq(s, 1, i - 1)} \cup SplitWhitelist(SubSeq(s, i + 1, Len(s)))

\* Mutant: the filter is applied even when no whitelist was given
FilteredOut_NoEmptyCheck(wl, op) ==
    IF op[1] = "q" \/ op[1] = "Q"
    THEN Str_q \notin wl /\ Str_Q \notin wl
    ELSE op \notin wl

\* Mutant: q/Q operators always pass the filter
FilteredOut_QAlwaysKept(wl, op) ==
    /\ wl # {}
    /\ ~(op[1] = "q" \/ op[1] = "Q")
    /\ op \notin wl

\* Mutant: q/Q operators are looked up by their own name like any other
FilteredOut_ByOwnName(wl, op) ==
    /\ wl # {}
    /\ op \notin wl

\* Mutant: BI is let through so that the inline-image grammar always sees it
FilteredOut_BIExempt(wl, op) ==
    /\ wl # {}
    /\ op # Str_BI
    /\ IF op[1] = "q" \/ op[1] = "Q"
       THEN Str_q \notin wl /\ Str_Q \notin wl
       ELSE op \notin wl

\* Lines 105-117: TRUE when the whitelist filter discards operator name op
FilteredOut(wl, op) ==
    /\ wl # {}
    /\ IF op[1] = "q" \/ op[1] = "Q"
       THEN Str_q \notin wl /\ Str_Q \notin wl
       ELSE op \notin wl

\* A value read through tokens[0] when the vector is empty: a destroyed element
\* of the cleared vector, or anything else the storage holds.
Garbage == [t |-> "garbage"]

Operand1 == newInteger(1)
OperandW == newName(<<"W">>)
Operands == {Operand1, OperandW}

StaleValues == Operands \cup {Garbage}

GrouperInit(operators) ==
    /\ whitelist = SplitWhitelist(operators)
    /\ tokens = <<>>
    /\ inline_metadata = <<>>
    /\ parsing_inline_image = FALSE
    /\ instructions = <<>>
    /\ warning = ""
    /\ count = 0
    /\ fed = <<>>
    /\ pc = "parsing"

\* Mutant: ID does not record the buffered tokens
MetadataAtID_Stale(toks) == <<>>

\* Line 122: the metadata recorded at ID
MetadataAtID(toks) == toks

\* Mutant: the pending buffer is passed where inline_metadata belongs
ImageAtEI_BufferAsMetadata(md, toks) == ContentStreamInlineImage(toks, toks[1])

\* Line 124: the inline image built at EI from a non-empty buffer
ImageAtEI(md, toks) == ContentStreamInlineImage(md, toks[1])

\* Line 129: the instruction built at an ordinary operator
InstructionAt(toks, obj) == ContentStreamInstruction(toks, obj)

\* OperandGrouper::handleObject, operator branch after the whitelist filter
EmitOrSwallow(obj, op) ==
    IF op = Str_BI
    THEN /\ parsing_inline_image' = TRUE
         /\ tokens' = <<>>
         /\ pc' = pc
         /\ UNCHANGED <<inline_metadata, instructions>>
    ELSE IF parsing_inline_image
    THEN IF op = Str_ID
         THEN /\ inline_metadata' = MetadataAtID(tokens)
              /\ tokens' = <<>>
              /\ pc' = pc
              /\ UNCHANGED <<parsing_inline_image, instructions>>
         ELSE IF op = Str_EI
         THEN IF tokens # <<>>
              THEN /\ instructions' = Append(instructions, ImageAtEI(inline_metadata, tokens))
                   /\ inline_metadata' = <<>>
                   /\ tokens' = <<>>
                   /\ pc' = pc
                   /\ UNCHANGED parsing_inline_image
              ELSE \* tokens[0] on an empty vector: the process faults, or the
                   \* read yields whatever the storage holds
                   \/ /\ pc' = "fault"
                      /\ UNCHANGED <<tokens, inline_metadata, instructions,
                                     parsing_inline_image>>
                   \/ \E stale \in StaleValues :
                        /\ instructions' =
                             Append(instructions, ImageAtEI(inline_metadata, <<stale>>))
                        /\ inline_metadata' = <<>>
                        /\ tokens' = <<>>
                        /\ pc' = pc
                        /\ UNCHANGED parsing_inline_image
         ELSE /\ tokens' = <<>>
              /\ pc' = pc
              /\ UNCHANGED <<inline_metadata, instructions, parsing_inline_image>>
    ELSE /\ instructions' = Append(instructions, InstructionAt(tokens, obj))
         /\ tokens' = <<>>
         /\ pc' = pc
         /\ UNCHANGED <<inline_metadata, parsing_inline_image>>

\* Mutant: the filter returns without clearing the buffer
handleObject_FilterKeepsTokens(obj) ==
    /\ pc = "parsing"
    /\ count' = count + 1
    /\ fed' = Append(fed, obj)
    /\ IF isOperator(obj)
       THEN LET op == getOperatorValue(obj) IN
            IF FilteredOut(whitelist, op)
            THEN /\ pc' = pc
                 /\ UNCHANGED <<tokens, inline_metadata, instructions,
                                parsing_inline_image>>
            ELSE EmitOrSwallow(obj, op)
       ELSE /\ tokens' = Append(tokens, obj)
            /\ pc' = pc
            /\ UNCHANGED <<inline_metadata, instructions, parsing_inline_image>>
    /\ UNCHANGED <<whitelist, warning>>
    /\ UNCHANGED unparseVars
    /\ UNCHANGED indexVars

\* OperandGrouper::handleObject
handleObject(obj) ==
    /\ pc = "parsing"
    /\ count' = count + 1
    /\ fed' = Append(fed, obj)
    /\ IF isOperator(obj)
       THEN LET op == getOperatorValue(obj) IN
            IF FilteredOut(whitelist, op)
            THEN /\ tokens' = <<>>
                 /\ pc' = pc
                 /\ UNCHANGED <<inline_metadata, instructions, parsing_inline_image>>
            ELSE EmitOrSwallow(obj, op)
       ELSE /\ tokens' = Append(tokens, obj)
            /\ pc' = pc
            /\ UNCHANGED <<inline_metadata, instructions, parsing_inline_image>>
    /\ UNCHANGED <<whitelist, warning>>
    /\ UNCHANGED unparseVars
    /\ UNCHANGED indexVars

\* Mutant: the test of the pending buffer is inverted
handleEOF_Inverted ==
    /\ pc = "parsing"
    /\ pc' = "eof"
    /\ warning' = IF tokens = <<>> THEN "Unexpected end of stream" ELSE warning
    /\ UNCHANGED <<whitelist, tokens, inline_metadata, parsing_inline_image,
                   instructions, count, fed>>
    /\ UNCHANGED unparseVars
    /\ UNCHANGED indexVars

\* Mutant: handleEOF drops the unconsumed operands it warns about
handleEOF_ClearsTokens ==
    /\ pc = "parsing"
    /\ pc' = "eof"
    /\ warning' = IF tokens # <<>> THEN "Unexpected end of stream" ELSE warning
    /\ tokens' = <<>>
    /\ UNCHANGED <<whitelist, inline_metadata, parsing_inline_image,
                   instructions, count, fed>>
    /\ UNCHANGED unparseVars
    /\ UNCHANGED indexVars

\* OperandGrouper::handleEOF
handleEOF ==
    /\ pc = "parsing"
    /\ pc' = "eof"
    /\ warning' = IF tokens # <<>> THEN "Unexpected end of stream" ELSE warning
    /\ UNCHANGED <<whitelist, tokens, inline_metadata, parsing_inline_image,
                   instructions, count, fed>>
    /\ UNCHANGED unparseVars
    /\ UNCHANGED indexVars

----------------------------------------------------------------------------
(* Python-level values handed to unparse_content_stream *)

PyStr(chars) == [py |-> "str", v |-> chars]
PyBytes(chars) == [py |-> "bytes", v |-> chars]
PyInt(i) == [py |-> "int", i |-> i]
PyObject(h) == [py |-> "Object", h |-> h]            \* a pikepdf.Object
PyOpaque == [py |-> "object"]                        \* some unrelated Python object
PdfInlineImage(image_data, image_object) ==
    [py |-> "PdfInlineImage",
     img |-> [image_data |-> image_data, image_object |-> image_object]]

\* A generic sequence item (tuple or list) with the given elements
PySeq(elems) == [kind |-> "seq", elems |-> elems]

NoError == [type |-> "none", msg |-> "", at |-> 0]
Raise(type, msg, at) == [type |-> type, msg |-> msg, at |-> at]

\* objecthandle_encode: the value-encoding service
objecthandle_encode(x) ==
    CASE x.py = "Object" -> [ok |-> TRUE, h |-> x.h]
      [] x.py = "int" -> [ok |-> TRUE, h |-> newInteger(x.i)]
      [] x.py = "str" -> [ok |-> TRUE, h |-> newString(x.v)]
      [] x.py = "bytes" -> [ok |-> TRUE, h |-> newString(x.v)]
      [] OTHER -> [ok |-> FALSE, h |-> Garbage]

\* Raw bytes of an inline image payload token
InlineImageRawBytes(h) == IF h.t = "inlineimage" THEN h.v ELSE unparseBinary(h)

RECURSIVE JoinBytes(_, _)
JoinBytes(parts, sep) ==
    IF parts = <<>> THEN <<>>
    ELSE IF Len(parts) = 1 THEN parts[1]
    ELSE parts[1] \o sep \o JoinBytes(Tail(parts), sep)

\* PdfInlineImage.unparse(): BI, the metadata, ID, the raw data, EI
PdfInlineImageUnparse(img) ==
    JoinBytes(<<Str_BI,
                JoinBytes([i \in 1..Len(img.img.image_object) |->
                              unparseBinary(img.img.image_object[i])], <<SP>>),
                Str_ID,
                InlineImageRawBytes(img.img.image_data),
                Str_EI>>, <<NL>>)

\* ContentStreamInlineImage::get_inline_image
get_inline_image(csii) == PdfInlineImage(csii.image_data, csii.image_metadata)

\* ContentStreamInlineImage::get_operands
get_operands(csii) == <<get_inline_image(csii)>>

\* ContentStreamInlineImage::get_operator
get_operator(csii) == newOperator(Str_INLINE_IMAGE)

\* operator<<(std::ostream&, ContentStreamInstruction&)
RECURSIVE WriteOperands(_)
WriteOperands(operands) ==
    IF operands = <<>> THEN <<>>
    ELSE unparseBinary(Head(operands)) \o <<SP>> \o WriteOperands(Tail(operands))

\* Mutant: the operator is written before its operands
WriteCSI_OperatorFirst(csi) ==
    unparseBinary(csi.operator_) \o <<SP>> \o WriteOperands(csi.operands)

WriteCSI(csi) == WriteOperands(csi.operands) \o unparseBinary(csi.operator_)

\* operator<<(std::ostream&, ContentStreamInlineImage&)
WriteCSII(csii) == PdfInlineImageUnparse(get_inline_image(csii))

----------------------------------------------------------------------------
(* unparse_content_stream *)

\* std::string(s).c_str() read as a C string: the text before the first NUL
RECURSIVE c_str(_)
c_str(chars) ==
    IF chars = <<>> \/ Head(chars) = NUL THEN <<>>
    ELSE <<Head(chars)>> \o c_str(Tail(chars))

\* Lines 185-202: the operator of a generic pair
ResolveOperator(operator_, at) ==
    IF operator_.py = "str"
    THEN [err |-> NoError, op |-> newOperator(c_str(operator_.v))]
    ELSE IF operator_.py = "bytes"
    THEN [err |-> NoError, op |-> newOperator(c_str(operator_.v))]
    ELSE IF operator_.py # "Object"
    THEN \* operator_.cast<QPDFObjectHandle>() throws
         [err |-> Raise("cast_error", "Unable to cast Python instance to C++ type", at),
          op |-> Garbage]
    ELSE IF ~isOperator(operator_.h)
    THEN [err |-> Raise("type_error",
                        "the operator is not of type pikepdf.Operator, bytes or str", at),
          op |-> Garbage]
    ELSE [err |-> NoError, op |-> operator_.h]

\* Lines 216-220: encode and write the operands until one fails
RECURSIVE EncodeOperands(_, _)
EncodeOperands(operands, at) ==
    IF operands = <<>> THEN [err |-> NoError, bytes |-> <<>>]
    ELSE LET e == objecthandle_encode(Head(operands)) IN
         IF ~e.ok
         THEN [err |-> Raise("encode_error", "objecthandle_encode failed", at),
               bytes |-> <<>>]
         ELSE LET rest == EncodeOperands(Tail(operands), at) IN
              [err |-> rest.err,
               bytes |-> unparseBinary(e.h) \o <<SP>> \o rest.bytes]

\* Lines 204-222: what a resolved generic pair writes
WritePair(operands, op, at) ==
    IF getOperatorValue(op) = Str_INLINE_IMAGE
    THEN IF operands = <<>>
         THEN [err |-> Raise("index_error", "operands[0]", at), bytes |-> <<>>]
         ELSE IF operands[1].py # "PdfInlineImage"
         THEN [err |-> Raise("value_error",
                             "Expected PdfInlineImage as operand for instruction", at),
               bytes |-> <<>>]
         ELSE [err |-> NoError, bytes |-> PdfInlineImageUnparse(operands[1])]
    ELSE LET w == EncodeOperands(operands, at) IN
         [err |-> w.err, bytes |-> w.bytes \o unparseBinary(op)]

\* Lines 177-224: the fallback path for an item that is no native instruction
Fallback(st, item) ==
    IF Len(item.elems) # 2
    THEN [st EXCEPT !.err = Raise("value_error",
             "Wrong number of operands at content stream instruction; expected 2", st.n)]
    ELSE LET r == ResolveOperator(item.elems[2], st.n) IN
         IF r.err.type # "none" THEN [st EXCEPT !.err = r.err]
         ELSE LET w == WritePair(item.elems[1], r.op, st.n) IN
              IF w.err.type # "none" THEN [st EXCEPT !.err = w.err]
              ELSE [st EXCEPT !.ss = st.ss \o w.bytes, !.n = st.n + 1]

\* Mutant: the delimiter is set before it is written
LoopBody_DelimFirst(st, item) ==
    LET st1 == [st EXCEPT !.ss = st.ss \o <<NL>>, !.delim = <<NL>>] IN
    IF item.kind = "csi" THEN [st1 EXCEPT !.ss = st1.ss \o WriteCSI(item)]
    ELSE IF item.kind = "csii" THEN [st1 EXCEPT !.ss = st1.ss \o WriteCSII(item)]
    ELSE Fallback(st1, item)

\* Mutant: n counts every item, native ones included
LoopBody_CountAll(st, item) ==
    LET st1 == [st EXCEPT !.ss = st.ss \o st.delim, !.delim = <<NL>>] IN
    IF item.kind = "csi"
    THEN [st1 EXCEPT !.ss = st1.ss \o WriteCSI(item), !.n = st1.n + 1]
    ELSE IF item.kind = "csii"
    THEN [st1 EXCEPT !.ss = st1.ss \o WriteCSII(item), !.n = st1.n + 1]
    ELSE Fallback(st1, item)

\* Lines 154-225: one iteration of the loop on the locals st = [ss, delim, n, err]
LoopBody(st, item) ==
    LET st1 == [st EXCEPT !.ss = st.ss \o st.delim, !.delim = <<NL>>] IN
    IF item.kind = "csi" THEN [st1 EXCEPT !.ss = st1.ss \o WriteCSI(item)]
    ELSE IF item.kind = "csii" THEN [st1 EXCEPT !.ss = st1.ss \o WriteCSII(item)]
    ELSE Fallback(st1, item)

\* Lines 149-152: the locals before the loop
LoopInit == [ss |-> <<>>, delim |-> <<>>, n |-> 0, err |-> NoError]

Running == [status |-> "running", bytes |-> <<>>, err |-> NoError]
Idle == [status |-> "idle", bytes |-> <<>>, err |-> NoError]

\* Mutant: a failure hands back what was written so far
Outcome_Partial(st) ==
    IF st.err.type = "none"
    THEN [status |-> "ok", bytes |-> st.ss, err |-> NoError]
    ELSE [status |-> "error", bytes |-> st.ss, err |-> st.err]

\* Line 226 or a throw: what the caller receives
Outcome(st) ==
    IF st.err.type = "none"
    THEN [status |-> "ok", bytes |-> st.ss, err |-> NoError]
    ELSE [status |-> "error", bytes |-> <<>>, err |-> st.err]

RECURSIVE RunLoop(_, _)
RunLoop(st, items) ==
    IF items = <<>> \/ st.err.type # "none" THEN st
    ELSE RunLoop(LoopBody(st, Head(items)), Tail(items))

\* unparse_content_stream as a function of the whole input
unparse_content_stream(items) == Outcome(RunLoop(LoopInit, items))

UnparseInit ==
    /\ contentstream = <<>>
    /\ ss = LoopInit.ss
    /\ delim = LoopInit.delim
    /\ n = LoopInit.n
    /\ result = Running

UnparseIdle ==
    /\ contentstream = <<>>
    /\ ss = <<>>
    /\ delim = <<>>
    /\ n = 0
    /\ result = Idle

\* The iterable yields item and the loop body runs on it
UnparseStep(item) ==
    /\ result.status = "running"
    /\ LET st == LoopBody([ss |-> ss, delim |-> delim, n |-> n, err |-> NoError], item) IN
        /\ contentstream' = Append(contentstream, item)
        /\ ss' = st.ss
        /\ delim' = st.delim
        /\ n' = st.n
        /\ result' = IF st.err.type = "none" THEN result ELSE Outcome(st)
    /\ UNCHANGED grouperVars
    /\ UNCHANGED indexVars

\* The iterable is exhausted: return py::bytes(ss.str())
UnparseReturn ==
    /\ result.status = "running"
    /\ result' = Outcome([ss |-> ss, delim |-> delim, n |-> n, err |-> NoError])
    /\ UNCHANGED <<contentstream, ss, delim, n>>
    /\ UNCHANGED grouperVars
    /\ UNCHANGED indexVars

----------------------------------------------------------------------------
(* The 2-tuple protocol of the instruction classes *)

PyList(elems) == [py |-> "list", items |-> elems]
\* An ObjectList seen from Python (pikepdf._ObjectList)
PyObjectList(objs) == [py |-> "ObjectList", objs |-> objs]
PyNone == [py |-> "None"]

NoCall == [call |-> "none", index |-> 0, raised |-> "none", value |-> PyNone]

\* ContentStreamInstruction: property "operator"
CSI_operator(csi) == PyObject(csi.operator_)

\* ContentStreamInstruction: getter of property "operands"
CSI_operands(csi) == PyObjectList(csi.operands)

\* ContentStreamInlineImage: property "operator"
CSII_operator(csii) == PyObject(newOperator(Str_INLINE_IMAGE))

\* ContentStreamInlineImage: property "operands"
CSII_operands(csii) == PyList(get_operands(csii))

\* Mutant: index -1 is taken for the first element
CSI_getitem_NegativeOff(csi, index) ==
    IF index = 0 \/ index = -1
    THEN [call |-> "getitem", index |-> index, raised |-> "none",
          value |-> PyObjectList(csi.operands)]
    ELSE IF index = 1 \/ index = -2
    THEN [call |-> "getitem", index |-> index, raised |-> "none",
          value |-> PyObject(csi.operator_)]
    ELSE [call |-> "getitem", index |-> index, raised |-> "index_error",
          value |-> PyNone]

\* ContentStreamInstruction.__getitem__
CSI_getitem(csi, index) ==
    IF index = 0 \/ index = -2
    THEN [call |-> "getitem", index |-> index, raised |-> "none",
          value |-> PyObjectList(csi.operands)]
    ELSE IF index = 1 \/ index = -1
    THEN [call |-> "getitem", index |-> index, raised |-> "none",
          value |-> PyObject(csi.operator_)]
    ELSE [call |-> "getitem", index |-> index, raised |-> "index_error",
          value |-> PyNone]

\* ContentStreamInlineImage.__getitem__
CSII_getitem(csii, index) ==
    IF index = 0 \/ index = -2
    THEN [call |-> "getitem", index |-> index, raised |-> "none",
          value |-> PyList(get_operands(csii))]
    ELSE IF index = 1 \/ index = -1
    THEN [call |-> "getitem", index |-> index, raised |-> "none",
          value |-> PyObject(get_operator(csii))]
    ELSE [call |-> "getitem", index |-> index, raised |-> "index_error",
          value |-> PyNone]

\* ContentStreamInstruction.__len__
CSI_len(csi) == 2

\* ContentStreamInlineImage.__len__
CSII_len(csii) == 2

\* Lines 241-245: encode the items into newlist until one fails
RECURSIVE EncodeInto(_, _)
EncodeInto(newlist, items) ==
    IF items = <<>> THEN [ok |-> TRUE, list |-> newlist]
    ELSE LET e == objecthandle_encode(Head(items)) IN
         IF ~e.ok THEN [ok |-> FALSE, list |-> newlist]
         ELSE EncodeInto(Append(newlist, e.h), Tail(items))

\* Mutant: the items are pushed onto csi.operands itself, after clearing it
CSI_set_operands_InPlace(csi, objlist) ==
    IF objlist.py = "ObjectList"
    THEN [raised |-> "none", csi |-> [csi EXCEPT !.operands = objlist.objs]]
    ELSE LET e == EncodeInto(<<>>, objlist.items) IN
         [raised |-> IF e.ok THEN "none" ELSE "encode_error",
          csi |-> [csi EXCEPT !.operands = e.list]]

\* ContentStreamInstruction: setter of property "operands"
CSI_set_operands(csi, objlist) ==
    IF objlist.py = "ObjectList"
    THEN [raised |-> "none", csi |-> [csi EXCEPT !.operands = objlist.objs]]
    ELSE LET e == EncodeInto(<<>>, objlist.items) IN
         IF e.ok
         THEN [raised |-> "none", csi |-> [csi EXCEPT !.operands = e.list]]
         ELSE [raised |-> "encode_error", csi |-> csi]

NoSubject == [kind |-> "none"]

IndexIdle ==
    /\ subject = NoSubject
    /\ got = NoCall

\* subject[index]
GetItem(index) ==
    /\ subject.kind \in {"csi", "csii"}
    /\ got' = IF subject.kind = "csi" THEN CSI_getitem(subject, index)
              ELSE CSII_getitem(subject, index)
    /\ UNCHANGED subject
    /\ UNCHANGED grouperVars
    /\ UNCHANGED unparseVars

\* len(subject)
GetLen ==
    /\ subject.kind \in {"csi", "csii"}
    /\ got' = [call |-> "len", index |-> 0, raised |-> "none",
               value |-> PyInt(IF subject.kind = "csi" THEN CSI_len(subject)
                               ELSE CSII_len(subject))]
    /\ UNCHANGED subject
    /\ UNCHANGED grouperVars
    /\ UNCHANGED unparseVars

\* subject.operands = objlist
SetOperands(objlist) ==
    /\ subject.kind = "csi"
    /\ LET r == CSI_set_operands(subject, objlist) IN
        /\ subject' = r.csi
        /\ got' = [call |-> "setoperands", index |-> 0, raised |-> r.raised,
                   value |-> objlist]
    /\ UNCHANGED grouperVars
    /\ UNCHANGED unparseVars

----------------------------------------------------------------------------
(* Inputs *)

\* Sequences over S of length at most k
SeqsUpTo(S, k) == UNION {[1..m -> S] : m \in 0..k}

OpTj == newOperator(Str_Tj)
Op_q == newOperator(Str_q)
Op_Q == newOperator(Str_Q)
Op_qq == newOperator(Str_qq)
OpBI == newOperator(Str_BI)
OpID == newOperator(Str_ID)
OpEI == newOperator(Str_EI)

\* Objects the tokenizer hands to the grouper
Tokens == Operands \cup {OpTj, Op_q, Op_Q, Op_qq, OpBI, OpID, OpEI}
InlineTokens == Operands \cup {OpTj, OpBI, OpID, OpEI}

\* Operator strings the grouper is constructed with
OperatorStrings ==
    { <<>>,
      Str_Tj,
      Str_Q \o <<SP>> \o Str_Tj,
      Str_qq,
      Str_ID \o <<SP>> \o Str_EI,
      Str_BI \o <<SP>> \o Str_EI,
      Str_BI \o <<SP, SP>> \o Str_ID \o <<SP>> \o Str_EI \o <<SP>> }

ImageData == [t |-> "inlineimage", v |-> <<"x", "\n", "y">>]

NativeItems ==
    { ContentStreamInstruction(<<Operand1>>, OpTj),
      ContentStreamInstruction(<<>>, Op_q),
      ContentStreamInstruction(<<OperandW, Operand1>>, Op_Q),
      ContentStreamInlineImage(<<OperandW, Operand1>>, ImageData) }

GoodPairs ==
    { PySeq(<<(<<PyStr(<<"a">>), PyStr(<<"b">>)>>), PyStr(Str_Tj)>>),
      PySeq(<<(<<PyInt(12), PyObject(OperandW)>>), PyObject(OpTj)>>),
      PySeq(<<(<<>>), PyBytes(Str_Q)>>),
      PySeq(<<(<<PyInt(12)>>), PyBytes(Str_Q \o <<NUL>> \o Str_Q)>>),
      PySeq(<<(<<PdfInlineImage(ImageData, <<OperandW, Operand1>>)>>),
              PyStr(Str_INLINE_IMAGE)>>) }

BadPairs ==
    { PySeq(<<>>),
      PySeq(<<(<<PyInt(12)>>), PyStr(Str_Tj), PyInt(3)>>),
      PySeq(<<(<<PyInt(12)>>), PyObject(OperandW)>>),
      PySeq(<<(<<PyInt(12)>>), PyInt(42)>>),
      PySeq(<<(<<PyInt(12), PyOpaque>>), PyStr(Str_Tj)>>),
      PySeq(<<(<<PyInt(12)>>), PyStr(Str_INLINE_IMAGE)>>),
      PySeq(<<(<<PyInt(12)>>), PyStr(Str_INLINE_IMAGE \o <<NUL, "z">>)>>) }

Items == NativeItems \cup GoodPairs \cup BadPairs

Subjects ==
    {ContentStreamInstruction(xs, op) :
        xs \in SeqsUpTo(Operands, MaxOperands), op \in {OpTj, Op_q}}
    \cup
    {ContentStreamInlineImage(md, d) :
        md \in SeqsUpTo(Operands, MaxOperands), d \in Operands \cup {ImageData}}

\* Values assigned to the operands property
SetterArgs ==
    { PyObjectList(<<OperandW>>),
      PyObjectList(<<>>),
      PyList(<<>>),
      PyList(<<PyInt(12), PyObject(OperandW)>>),
      PyList(<<PyInt(12), PyOpaque>>),
      PyList(<<PyOpaque, PyInt(12)>>) }

----------------------------------------------------------------------------
(* Specifications *)

\* The parser loop of a content stream: handleObject per token, then handleEOF
Init ==
    /\ \E operators \in OperatorStrings : GrouperInit(operators)
    /\ UnparseIdle
    /\ IndexIdle

Next ==
    \/ \E obj \in Tokens : count < MaxTokens /\ handleObject(obj)
    \/ handleEOF

Spec == Init /\ [][Next]_vars

\* The token-feeding phase of the same loop without a whitelist, on longer
\* streams of the inline-image grammar
InitInline ==
    /\ GrouperInit(<<>>)
    /\ UnparseIdle
    /\ IndexIdle

NextInline == \E obj \in InlineTokens : count < MaxInlineTokens /\ handleObject(obj)

SpecInline == InitInline /\ [][NextInline]_vars

\* unparse_content_stream on the items an iterable yields
InitUnparse ==
    /\ GrouperInit(<<>>)
    /\ UnparseInit
    /\ IndexIdle

NextUnparse ==
    \/ \E item \in Items : Len(contentstream) < MaxItems /\ UnparseStep(item)
    \/ UnparseReturn

SpecUnparse == InitUnparse /\ [][NextUnparse]_vars

\* Indexing and len() of an instruction object
InitIndex ==
    /\ GrouperInit(<<>>)
    /\ UnparseIdle
    /\ subject \in Subjects
    /\ got = NoCall

NextIndex ==
    \/ \E index \in (0 - MaxIndex)..MaxIndex : GetItem(index)
    \/ GetLen
    \/ \E objlist \in SetterArgs : SetOperands(objlist)

SpecIndex == InitIndex /\ [][NextIndex]_vars

----------------------------------------------------------------------------
(* Helpers of the properties *)

Last(s) == s[Len(s)]

\* The instructions a stream of operand runs and operators groups into: one per
\* operator, holding the operands since the previous operator
RECURSIVE GroupRuns(_, _)
GroupRuns(T, pending) ==
    IF T = <<>> THEN <<>>
    ELSE IF isOperator(Head(T))
    THEN <<[kind |-> "csi", operands |-> pending, operator_ |-> Head(T)]>>
         \o GroupRuns(Tail(T), <<>>)
    ELSE GroupRuns(Tail(T), Append(pending, Head(T)))

\* No object of T is the operator named name
NoOperatorNamed(T, name) ==
    \A i \in 1..Len(T) : ~(isOperator(T[i]) /\ T[i].v = name)

\* Every object of T in positions a..b is an operand
AllOperands(T, a, b) == \A i \in a..b : ~isOperator(T[i])

IsOp(obj, name) == isOperator(obj) /\ obj.v = name

StartsWithQ(name) == name[1] = "q" \/ name[1] = "Q"

----------------------------------------------------------------------------
(* C1 *)

\* C1 as stated: with an empty whitelist the instruction list is, for every
\* stream, one instruction per operator token with the operands since the
\* previous operator.
C1_Original ==
    (whitelist = {} /\ pc # "fault") => instructions = GroupRuns(fed, <<>>)

\* C1 (amended): with an empty whitelist and a stream in which no operator is BI,
\* the grouper has emitted exactly one ContentStreamInstruction per operator
\* token, in stream order, each holding exactly the non-operator tokens received
\* since the previous operator token.
C1_OneInstructionPerOperator ==
    (whitelist = {} /\ NoOperatorNamed(fed, Str_BI))
        => /\ instructions = GroupRuns(fed, <<>>)
           /\ pc # "fault"

C1_Witness ==
    /\ whitelist = {}
    /\ NoOperatorNamed(fed, Str_BI)
    /\ Len(fed) = 4
    /\ Len(instructions) = 2
    /\ Len(instructions[1].operands) = 2
    /\ instructions[2].operands = <<>>

----------------------------------------------------------------------------
(* C2 *)

\* The operators C2 speaks of: not in the non-empty whitelist, and, when the name
\* starts with q or Q, neither "q" nor "Q" whitelisted
C2_Discarded(wl, op) ==
    /\ wl # {}
    /\ op \notin wl
    /\ StartsWithQ(op) => (Str_q \notin wl /\ Str_Q \notin wl)

C2_Step ==
    (/\ pc = "parsing"
     /\ Len(fed') = Len(fed) + 1
     /\ isOperator(Last(fed'))
     /\ C2_Discarded(whitelist, Last(fed').v))
        => /\ instructions' = instructions
           /\ tokens' = <<>>

\* C2: with a non-empty whitelist, handleObject(op) for an operator op that is not
\* in the whitelist (for a q/Q operator: when neither "q" nor "Q" is whitelisted)
\* emits no instruction and leaves the pending buffer empty.
C2_FilteredOperatorDiscards == [][C2_Step]_vars

C2_Witness ==
    /\ Len(fed) >= 3
    /\ isOperator(Last(fed))
    /\ C2_Discarded(whitelist, Last(fed).v)
    /\ ~isOperator(fed[Len(fed) - 1])
    /\ tokens = <<>>
    /\ Len(instructions) = 1

----------------------------------------------------------------------------
(* C3 *)

\* The stream [m1, m2, BI, d1, ID, payload, EI]
C3_Stream(T) ==
    /\ Len(T) = 7
    /\ AllOperands(T, 1, 2)
    /\ IsOp(T[3], Str_BI)
    /\ ~isOperator(T[4])
    /\ IsOp(T[5], Str_ID)
    /\ ~isOperator(T[6])
    /\ IsOp(T[7], Str_EI)

\* C3 as stated: the stream yields one inline image with metadata [m1, m2] and
\* image_data payload.
C3_Original ==
    C3_Stream(fed) =>
        instructions = <<[kind |-> "csii", image_metadata |-> <<fed[1], fed[2]>>,
                          image_data |-> fed[6]]>>

\* C3 (amended): the stream [m1, m2, BI, d1, ID, payload, EI] yields exactly one
\* ContentStreamInlineImage whose metadata is [d1] and whose image_data is
\* payload; m1 and m2, received before BI, are discarded and not stored.
C3_MetadataIsBetweenBIandID ==
    C3_Stream(fed) =>
        /\ instructions = <<[kind |-> "csii", image_metadata |-> <<fed[4]>>,
                             image_data |-> fed[6]]>>
        /\ pc # "fault"

C3_Witness ==
    /\ C3_Stream(fed)
    /\ fed[1] # fed[2]
    /\ fed[4] # fed[6]
    /\ Len(instructions) = 1

----------------------------------------------------------------------------
(* C4 *)

\* T is [pre..., BI, meta..., ID, payload, EI] with BI at position b
C4_Stream(T, b) ==
    /\ Len(T) >= b + 3
    /\ AllOperands(T, 1, b - 1)
    /\ IsOp(T[b], Str_BI)
    /\ AllOperands(T, b + 1, Len(T) - 3)
    /\ IsOp(T[Len(T) - 2], Str_ID)
    /\ ~isOperator(T[Len(T) - 1])
    /\ IsOp(T[Len(T)], Str_EI)

\* C4: for [pre..., BI, meta..., ID, payload, EI] without a whitelist, the
\* operands before BI are dropped when BI is handled, and after EI the single
\* instruction is the inline image with metadata meta and image_data payload.
C4_InlineImageGrouping ==
    /\ \A b \in 1..Len(fed) :
          (fed = SubSeq(fed, 1, b) /\ AllOperands(fed, 1, b - 1) /\ IsOp(fed[b], Str_BI))
              => (tokens = <<>> /\ instructions = <<>> /\ inline_metadata = <<>>)
    /\ \A b \in 1..Len(fed) :
          C4_Stream(fed, b) =>
              /\ instructions =
                    <<[kind |-> "csii",
                       image_metadata |-> SubSeq(fed, b + 1, Len(fed) - 3),
                       image_data |-> fed[Len(fed) - 1]]>>
              /\ pc # "fault"

C4_Witness ==
    /\ Len(fed) = 7
    /\ C4_Stream(fed, 2)
    /\ fed[3] # fed[4]
    /\ Len(instructions) = 1
    /\ Len(instructions[1].image_metadata) = 2

----------------------------------------------------------------------------
(* C5 *)

\* C5: after handleEOF the warning is "Unexpected end of stream" exactly when the
\* pending buffer was non-empty at that call and is unset otherwise; before
\* handleEOF, whatever handleObject calls were made, it is unset.
C5_WarningIffPendingAtEOF ==
    /\ pc = "eof" =>
          /\ (warning = "Unexpected end of stream") <=> (tokens # <<>>)
          /\ (tokens = <<>>) => (warning = "")
    /\ pc # "eof" => warning = ""

C5_Witness ==
    /\ pc = "eof"
    /\ tokens # <<>>
    /\ instructions # <<>>
    /\ warning = "Unexpected end of stream"

----------------------------------------------------------------------------
(* C6 *)

InlineOperatorNames == {Str_BI, Str_ID, Str_EI}

NoInlineOperators(T) ==
    \A i \in 1..Len(T) : ~(isOperator(T[i]) /\ T[i].v \in InlineOperatorNames)

EndsWithOperator(T) == T = <<>> \/ isOperator(Last(T))

\* The tokens of T in order: an operand and one space, an operator and, unless it
\* is the last token, one newline
RECURSIVE RenderTokens(_)
RenderTokens(T) ==
    IF T = <<>> THEN <<>>
    ELSE IF isOperator(Head(T))
    THEN unparseBinary(Head(T)) \o (IF Len(T) > 1 THEN <<NL>> ELSE <<>>)
         \o RenderTokens(Tail(T))
    ELSE unparseBinary(Head(T)) \o <<SP>> \o RenderTokens(Tail(T))

RoundTrips ==
    LET r == unparse_content_stream(instructions) IN
    r.status = "ok" /\ r.bytes = RenderTokens(fed)

\* C6 as stated: for any stream without inline-image operators, unparsing the
\* grouped instructions renders exactly the tokens of the stream.
C6_Original ==
    (pc = "eof" /\ NoInlineOperators(fed)) => RoundTrips

\* C6 (amended): for a grouper without a whitelist and a stream without
\* inline-image operators whose operands are all followed by an operator,
\* unparsing the grouped instructions renders exactly the tokens of the stream in
\* order: operand, space; operator last; one newline between instructions.
C6_RoundTrip ==
    (whitelist = {} /\ NoInlineOperators(fed) /\ EndsWithOperator(fed)) => RoundTrips

C6_Witness ==
    /\ pc = "eof"
    /\ whitelist = {}
    /\ NoInlineOperators(fed)
    /\ EndsWithOperator(fed)
    /\ Len(fed) = 4
    /\ Len(instructions) = 2
    /\ instructions[2].operands # <<>>
    /\ RoundTrips

----------------------------------------------------------------------------
(* C7 *)

\* An item that serializes: a native instruction, or a pair whose operator
\* resolves and whose operands are written
Serializes(item) ==
    \/ item.kind \in {"csi", "csii"}
    \/ /\ item.kind = "seq"
       /\ Len(item.elems) = 2
       /\ ResolveOperator(item.elems[2], 0).err.type = "none"
       /\ WritePair(item.elems[1], ResolveOperator(item.elems[2], 0).op, 0).err.type = "none"

\* The bytes of one item that serializes
ItemBytes(item) ==
    IF item.kind = "csi" THEN WriteCSI(item)
    ELSE IF item.kind = "csii" THEN WriteCSII(item)
    ELSE WritePair(item.elems[1], ResolveOperator(item.elems[2], 0).op, 0).bytes

\* C7: when every item of the input serializes, the call returns the items'
\* renderings in input order joined by exactly one newline, with no leading or
\* trailing newline, and the empty byte string for no items.
C7_JoinedByOneNewline ==
    (/\ result.status \in {"ok", "error"}
     /\ \A i \in 1..Len(contentstream) : Serializes(contentstream[i]))
        => /\ result.status = "ok"
           /\ result.bytes =
                 JoinBytes([i \in 1..Len(contentstream) |-> ItemBytes(contentstream[i])],
                           <<NL>>)
           /\ contentstream = <<>> => result.bytes = <<>>

C7_Witness ==
    /\ result.status = "ok"
    /\ Len(contentstream) = 3
    /\ contentstream[1].kind = "seq"
    /\ contentstream[2].kind = "csii"
    /\ contentstream[3].kind = "csi"

----------------------------------------------------------------------------
(* C8 *)

\* Number of fallback-path items among the first k items
RECURSIVE FallbackItemsBefore(_, _)
FallbackItemsBefore(items, k) ==
    IF k = 0 THEN 0
    ELSE FallbackItemsBefore(items, k - 1) + (IF items[k].kind = "seq" THEN 1 ELSE 0)

\* C8: a fallback-path item that is not a 2-element sequence fails the call with
\* the wrong-number-of-operands error, and the number in the message is the
\* count of fallback-path items before it; native items do not count.
C8_ArityErrorIndex ==
    (/\ contentstream # <<>>
     /\ Last(contentstream).kind = "seq"
     /\ Len(Last(contentstream).elems) # 2)
        => /\ result.status = "error"
           /\ result.err.type = "value_error"
           /\ result.err.msg =
                 "Wrong number of operands at content stream instruction; expected 2"
           /\ result.err.at = FallbackItemsBefore(contentstream, Len(contentstream) - 1)

C8_Witness ==
    /\ Len(contentstream) = 3
    /\ contentstream[1].kind = "csi"
    /\ contentstream[2].kind = "seq"
    /\ Len(contentstream[3].elems) = 3
    /\ result.status = "error"
    /\ result.err.at = 1

----------------------------------------------------------------------------
(* C9 *)

\* C9: on both instruction classes, index 0 and -2 give the operands property,
\* index 1 and -1 the operator property, any other index raises the index
\* error, and len() is 2 whatever the number of operands.
C9_TwoTupleProtocol ==
    /\ got.call = "getitem" =>
          LET operands == IF subject.kind = "csi" THEN CSI_operands(subject)
                          ELSE CSII_operands(subject)
              operator == IF subject.kind = "csi" THEN CSI_operator(subject)
                          ELSE CSII_operator(subject)
          IN  /\ got.index \in {0, -2} => (got.raised = "none" /\ got.value = operands)
              /\ got.index \in {1, -1} => (got.raised = "none" /\ got.value = operator)
              /\ got.index \notin {0, 1, -1, -2} => got.raised = "index_error"
    /\ got.call = "len" => (got.raised = "none" /\ got.value = PyInt(2))

C9_Witness ==
    /\ subject.kind = "csi"
    /\ Len(subject.operands) = 2
    /\ got.call = "getitem"
    /\ got.index = -1
    /\ got.value = PyObject(subject.operator_)

----------------------------------------------------------------------------
(* C10 *)

ResolutionFailed == result.status = "error" /\ result.err.type \in {"type_error", "cast_error"}

IsSuffix(suffix, s) ==
    Len(suffix) <= Len(s) /\ SubSeq(s, Len(s) - Len(suffix) + 1, Len(s)) = suffix

ExamplePair == PySeq(<<(<<PyStr(<<"a">>), PyStr(<<"b">>)>>), PyStr(Str_Tj)>>)

\* The last item is a generic pair
LastIsPair ==
    /\ contentstream # <<>>
    /\ Last(contentstream).kind = "seq"
    /\ Len(Last(contentstream).elems) = 2

\* The last item is a pair whose operator is neither text, bytes nor a typed value
UntypedOperator ==
    /\ LastIsPair
    /\ Last(contentstream).elems[2].py \notin {"str", "bytes", "Object"}

\* First clause of C10: a text or bytes operator never fails to resolve, and
\* the pair is written as its operands, each followed by a space, and then the
\* operator token made of the whole content of the text or bytes
C10_TextOperator ==
    LastIsPair =>
        LET xs == Last(contentstream).elems[1]
            x == Last(contentstream).elems[2]
        IN  x.py \in {"str", "bytes"} =>
                /\ ~ResolutionFailed
                /\ (result.status # "error" /\ x.v # Str_INLINE_IMAGE) =>
                      IsSuffix(EncodeOperands(xs, 0).bytes \o x.v, ss)

\* Second clause of C10: a typed value is accepted exactly if it is an operator
C10_TypedOperator ==
    LastIsPair =>
        LET x == Last(contentstream).elems[2] IN
        /\ (x.py = "Object" /\ isOperator(x.h)) =>
              /\ ~ResolutionFailed
              /\ result.status # "error" => IsSuffix(x.h.v, ss)
        /\ (x.py = "Object" /\ ~isOperator(x.h)) =>
              /\ result.status = "error"
              /\ result.err.type = "type_error"
              /\ result.err.msg =
                    "the operator is not of type pikepdf.Operator, bytes or str"

\* Third clause of C10: any other value fails with the same type error
C10_OtherOperator ==
    UntypedOperator =>
        /\ result.status = "error"
        /\ result.err.type = "type_error"
        /\ result.err.msg = "the operator is not of type pikepdf.Operator, bytes or str"

\* The example of C10: ([a, b], "Tj") is written as each operand and a space,
\* then Tj
C10_Example ==
    contentstream = <<ExamplePair>> =>
        /\ result.status # "error"
        /\ ss = unparseBinary(newString(<<"a">>)) \o <<SP>>
                \o unparseBinary(newString(<<"b">>)) \o <<SP>> \o Str_Tj

\* C10: in the fallback path a text or bytes operator always yields an operator
\* token built from its content and never fails; any other value is accepted
\* only if it is a typed operator and otherwise fails with the type error
\* "operator is not of type Operator, bytes or str"; the pair ([a, b], "Tj") is
\* written as each operand followed by a space and then Tj.
C10_Original ==
    /\ C10_TextOperator
    /\ C10_TypedOperator
    /\ C10_OtherOperator
    /\ C10_Example

----------------------------------------------------------------------------
(* Helpers of the properties of the inline-image grammar *)

\* Length of the run of operands that ends T
RECURSIVE TrailingRunLen(_)
TrailingRunLen(T) ==
    IF T = <<>> \/ isOperator(Last(T)) THEN 0
    ELSE 1 + TrailingRunLen(SubSeq(T, 1, Len(T) - 1))

\* The run of operands that ends T
TrailingRun(T) == SubSeq(T, Len(T) - TrailingRunLen(T) + 1, Len(T))

\* T without its last object
Front(T) == SubSeq(T, 1, Len(T) - 1)

\* The operator named name is not discarded by whitelist wl
Passes(wl, name) ==
    \/ wl = {}
    \/ IF StartsWithQ(name) THEN (Str_q \in wl \/ Str_Q \in wl) ELSE name \in wl

\* Positions j < k of T hold a BI and a later EI preceded by its payload, both
\* passing the whitelist, and no BI follows that EI: an inline-image block was
\* opened and closed
ClosedBlock(T, wl) ==
    \E j \in 1..Len(T) : \E k \in (j + 2)..Len(T) :
        /\ IsOp(T[j], Str_BI) /\ Passes(wl, Str_BI)
        /\ ~isOperator(T[k - 1])
        /\ IsOp(T[k], Str_EI) /\ Passes(wl, Str_EI)
        /\ \A i \in (k + 1)..Len(T) : ~IsOp(T[i], Str_BI)

----------------------------------------------------------------------------
(* C11 *)

\* C11: once an EI has closed an inline-image block, a later operator that is
\* not BI and passes the whitelist emits a ContentStreamInstruction holding the
\* operands received since the previous operator.
C11_OrdinaryAfterEI ==
    (/\ Len(fed) >= 2
     /\ isOperator(Last(fed))
     /\ Last(fed).v # Str_BI
     /\ Passes(whitelist, Last(fed).v)
     /\ ClosedBlock(Front(fed), whitelist)
     /\ pc # "fault")
        => /\ instructions # <<>>
           /\ Last(instructions) =
                 [kind |-> "csi", operands |-> TrailingRun(Front(fed)),
                  operator_ |-> Last(fed)]

----------------------------------------------------------------------------
(* C12 *)

\* C12: whenever an EI operator has been processed inside an inline-image block,
\* the buffer it read tokens[0] from held exactly one token.
C12_OnePayloadTokenAtEI ==
    (/\ fed # <<>>
     /\ IsOp(Last(fed), Str_EI)
     /\ Passes(whitelist, Str_EI)
     /\ parsing_inline_image)
        => TrailingRunLen(Front(fed)) = 1

----------------------------------------------------------------------------
(* C13 *)

\* C13: the pending buffer holds exactly the non-operator tokens received since
\* the most recent operator token; right after any operator token it is empty.
C13_BufferIsTrailingRun ==
    /\ tokens = TrailingRun(fed)
    /\ (fed # <<>> /\ isOperator(Last(fed))) => tokens = <<>>

C13_Witness ==
    /\ Len(fed) = 4
    /\ ~isOperator(fed[1])
    /\ isOperator(fed[2])
    /\ ~Passes(whitelist, fed[2].v)
    /\ ~isOperator(fed[3])
    /\ IsOp(fed[4], Str_BI)
    /\ parsing_inline_image
    /\ tokens = <<>>

----------------------------------------------------------------------------
(* C14 *)

\* A handleObject step whose object is an operator
OperatorStep ==
    /\ pc = "parsing"
    /\ Len(fed') = Len(fed) + 1
    /\ isOperator(Last(fed'))

C14_Step ==
    (OperatorStep /\ whitelist # {} /\ StartsWithQ(Last(fed').v)) =>
        /\ (Str_q \notin whitelist /\ Str_Q \notin whitelist) =>
              (instructions' = instructions /\ tokens' = <<>>)
        /\ ((Str_q \in whitelist \/ Str_Q \in whitelist) /\ ~parsing_inline_image) =>
              instructions' =
                  Append(instructions,
                         [kind |-> "csi", operands |-> tokens, operator_ |-> Last(fed')])

\* C14: with a non-empty whitelist, an operator whose name starts with q or Q is
\* kept exactly when "q" or "Q" is whitelisted, whether or not its own name is;
\* when neither is, it is discarded with its operands and emits nothing.
C14_QRule == [][C14_Step]_vars

C14_Witness ==
    /\ whitelist = {Str_qq}
    /\ Len(fed) = 2
    /\ ~isOperator(fed[1])
    /\ IsOp(fed[2], Str_qq)
    /\ instructions = <<>>
    /\ tokens = <<>>

----------------------------------------------------------------------------
(* C15 *)

\* Inside a block an operator other than ID and EI changes nothing but the buffer
C15_Swallow ==
    (OperatorStep /\ parsing_inline_image /\ Last(fed').v \notin {Str_ID, Str_EI}) =>
        /\ instructions' = instructions
        /\ inline_metadata' = inline_metadata
        /\ parsing_inline_image' = parsing_inline_image
        /\ tokens' = <<>>

\* Inside a block ID records the buffered tokens and emits nothing
C15_IDRecords ==
    /\ instructions' = instructions
    /\ parsing_inline_image' = parsing_inline_image
    /\ inline_metadata' = tokens
    /\ tokens' = <<>>

\* C15 as stated: inside a block every ID sets inline_metadata to the buffer.
C15_Original ==
    [][/\ C15_Swallow
       /\ (OperatorStep /\ parsing_inline_image /\ Last(fed').v = Str_ID)
             => C15_IDRecords]_vars

\* C15 (amended): while parsing_inline_image is true, an operator other than ID
\* and EI emits nothing and leaves instructions, inline_metadata and
\* parsing_inline_image unchanged, clearing only the buffer; an ID that passes
\* the whitelist filter emits nothing and changes only inline_metadata (set to
\* the buffered tokens) and the buffer.
C15_InsideBlock ==
    [][/\ C15_Swallow
       /\ (OperatorStep /\ parsing_inline_image /\ Last(fed').v = Str_ID
           /\ Passes(whitelist, Str_ID))
             => C15_IDRecords]_vars

C15_Witness ==
    /\ Len(fed) = 4
    /\ IsOp(fed[1], Str_BI)
    /\ ~isOperator(fed[2])
    /\ IsOp(fed[3], Str_ID)
    /\ IsOp(fed[4], Str_BI)
    /\ parsing_inline_image
    /\ inline_metadata = <<fed[2]>>
    /\ instructions = <<>>
    /\ tokens = <<>>

----------------------------------------------------------------------------
(* C16 *)

\* C16: handleEOF changes at most the warning: the instruction list, the buffer,
\* inline_metadata, parsing_inline_image and the token count are what they were.
C16_EOFFrame ==
    [][(pc = "parsing" /\ pc' = "eof") =>
          /\ instructions' = instructions
          /\ tokens' = tokens
          /\ inline_metadata' = inline_metadata
          /\ parsing_inline_image' = parsing_inline_image
          /\ count' = count
          /\ whitelist' = whitelist]_vars

C16_Witness ==
    /\ pc = "eof"
    /\ count = 4
    /\ Len(instructions) = 1
    /\ Len(tokens) = 2
    /\ warning # ""

----------------------------------------------------------------------------
(* C18 *)

\* C18: with a non-empty whitelist without "BI", BI never turns on the
\* inline-image grammar and a whitelisted ID or EI is emitted as an ordinary
\* instruction; an inline image is emitted only if BI and EI both pass the filter.
C18_FilterBeforeGrammar ==
    /\ (whitelist # {} /\ Str_BI \notin whitelist) =>
          /\ ~parsing_inline_image
          /\ (fed # <<>> /\ isOperator(Last(fed)) /\ Last(fed).v \in {Str_ID, Str_EI}
              /\ Last(fed).v \in whitelist) =>
                /\ instructions # <<>>
                /\ Last(instructions) =
                      [kind |-> "csi", operands |-> TrailingRun(Front(fed)),
                       operator_ |-> Last(fed)]
    /\ (\E i \in 1..Len(instructions) : instructions[i].kind = "csii") =>
          (Passes(whitelist, Str_BI) /\ Passes(whitelist, Str_EI))

C18_Witness ==
    /\ whitelist = {Str_ID, Str_EI}
    /\ Len(fed) = 4
    /\ IsOp(fed[1], Str_BI)
    /\ ~isOperator(fed[2])
    /\ IsOp(fed[3], Str_ID)
    /\ IsOp(fed[4], Str_EI)
    /\ Len(instructions) = 2
    /\ instructions[1].operands = <<fed[2]>>
    /\ instructions[2].kind = "csi"

----------------------------------------------------------------------------
(* C17 *)

\* C17: a call in which some item fails returns no bytes at all, however many
\* items were written before it; bytes are returned only when every item
\* succeeded.
C17_AllOrNothing ==
    /\ result.status = "error" => result.bytes = <<>>
    /\ result.status = "ok" =>
          \A i \in 1..Len(contentstream) : Serializes(contentstream[i])
    /\ (/\ result.status \in {"ok", "error"}
        /\ \E i \in 1..Len(contentstream) : ~Serializes(contentstream[i]))
          => (result.status = "error" /\ result.bytes = <<>>)

C17_Witness ==
    /\ Len(contentstream) = 3
    /\ result.status = "error"
    /\ result.err.type = "encode_error"
    /\ ss # <<>>
    /\ result.bytes = <<>>

----------------------------------------------------------------------------
(* C19 *)

\* The generic pair (xs, op) of a native instruction; other items as they are
TupleForm(item) ==
    IF item.kind = "csi"
    THEN PySeq(<<[i \in 1..Len(item.operands) |-> PyObject(item.operands[i])],
                 PyObject(item.operator_)>>)
    ELSE item

\* C19: replacing every native ContentStreamInstruction of the input by its
\* 2-tuple form (typed operands, operator not INLINE IMAGE) gives the same bytes.
C19_NativeEqualsPair ==
    result.status = "ok" =>
        LET r == unparse_content_stream(
                     [i \in 1..Len(contentstream) |-> TupleForm(contentstream[i])])
        IN  r.status = "ok" /\ r.bytes = result.bytes

C19_Witness ==
    /\ result.status = "ok"
    /\ Len(contentstream) = 2
    /\ contentstream[1].kind = "csi"
    /\ Len(contentstream[1].operands) = 2
    /\ contentstream[2].kind = "csi"
    /\ contentstream[2].operands = <<>>

----------------------------------------------------------------------------
(* C20 *)

Encodable(x) == objecthandle_encode(x).ok

C20_Step ==
    got'.call = "setoperands" =>
        LET arg == got'.value IN
        /\ subject'.kind = "csi"
        /\ subject'.operator_ = subject.operator_
        /\ IF arg.py = "ObjectList"
           THEN got'.raised = "none" /\ subject'.operands = arg.objs
           ELSE IF \A i \in 1..Len(arg.items) : Encodable(arg.items[i])
           THEN /\ got'.raised = "none"
                /\ subject'.operands =
                      [i \in 1..Len(arg.items) |-> objecthandle_encode(arg.items[i]).h]
           ELSE /\ got'.raised = "encode_error"
                /\ subject' = subject

\* C20: the operands setter replaces the operands wholesale: if encoding any
\* element of a generic sequence fails, the error propagates and operands and
\* operator are what they were; otherwise the operands are the encoded elements
\* in order and the operator is unchanged.
C20_SetterAtomic == [][C20_Step]_vars

C20_Witness ==
    /\ got.call = "setoperands"
    /\ got.raised = "encode_error"
    /\ got.value = PyList(<<PyInt(12), PyOpaque>>)
    /\ subject.kind = "csi"
    /\ subject.operands = <<OperandW, Operand1>>

====
